---- MODULE Spec2Model ----
(***************************************************************************)
(* State-machine model of the SP108E device client (src/src/lib/sp108e.ts) *)
(* and of the callers in src/src/platformAccessory.ts that drive it.       *)
(*                                                                         *)
(* Hex strings are sequences of hex digits 0..15, buffers are sequences of *)
(* bytes 0..255.  Promise reactions are jobs of a FIFO microtask queue;    *)
(* timers and socket events are macrotasks, which run only when the        *)
(* microtask queue is empty.                                               *)
(***************************************************************************)
EXTENDS Integers, Sequences, FiniteSets, TLC

VARIABLES
  _connected,   \* sp108e._connected
  _client,      \* sp108e._client: 0 = undefined, else the wrapped socket's id
  _rawSocket,   \* sp108e._rawSocket: 0 = undefined, else a socket id
  _sendQueue,   \* sp108e._sendQueue: 0 = the initial resolved promise, else
                \* r = the promise queued_r.catch(...) left by the r-th send()
  sock,         \* net.Socket instances created so far, by id: their state
  req,          \* the send() calls made so far, in call order
  micro,        \* the microtask queue: promise reaction jobs
  ops,          \* the client operations called so far, in call order
  wire,         \* the frames the device has received, in order
  devOn,        \* device: power state
  devMode,      \* device: classification byte it reports (animation/preset)
  faults,       \* number of network faults the environment may still inject
  rawResponse,  \* a response buffer handed to the status decoder
  decoded,      \* <<>> or <<the sp108eStatus decoded from rawResponse>>
  deviceStatus, \* accessory.deviceStatus: <<>> = undefined, else <<the status held>>
  presetOn,     \* accessory.presetOn
  presetEffectNumber  \* accessory.presetEffectNumber

vars == <<_connected, _client, _rawSocket, _sendQueue, sock, req, micro, ops,
          wire, devOn, devMode, faults, rawResponse, decoded,
          deviceStatus, presetOn, presetEffectNumber>>

connVars == <<_connected, _client, _rawSocket, sock>>
devVars == <<wire, devOn, devMode>>
decVars == <<rawResponse, decoded>>
accVars == <<deviceStatus, presetOn, presetEffectNumber>>

---------------------------------------------------------------------------
(* Bounds of the model *)

MaxSends == 2      \* send-level operations called (Spec)
MaxFaults == 5     \* network faults injected (Spec)
MaxOps == 2        \* client operations called (OpSpec)
MaxReq == 4        \* send() calls the operations may make in all (OpSpec)
MaxOpFaults == 1   \* network faults injected (OpSpec)
MaxLiveFaults == 3 \* network faults injected (LiveSpec)
MaxFrameCalls == 1 \* send() calls made (FrameSpec)
MaxIntCalls == 1   \* setter calls made (IntSpec)
MaxInt == 300      \* largest integer passed to a setter (IntSpec)
MaxAccOps == 2     \* accessory handlers called (AccSpec)
MaxAccFaults == 1  \* network faults injected (AccSpec)
MaxIdleSends == 3  \* send-level operations called (IdleSpec)
MaxIdleFaults == 2 \* connections lost while idle (IdleSpec)
MaxPolls == 3      \* ticks of the poll timer (PollSpec)
MaxPollFaults == 2 \* network faults injected (PollSpec)
HexDigits == {0, 8, 15}  \* the hex digits parameters are made of (FrameSpec)

---------------------------------------------------------------------------
(* Program constants *)

SEND_MAX_RETRIES == 3
SEND_BASE_DELAY_MS == 200
SEND_TIMEOUT_MS == 5000
SLEEP_MS == 250
STATUS_LENGTH == 17
ANIMATION_MODE_STATIC == 211
defaultDreamModeNumber == 1
POLL_INTERVAL == 1000
UNKNOWN_MODE == -1
NaN == -1000

CMD_SET_CHIP_TYPE == <<1, 12>>
CMD_SET_COLOR_ORDER == <<3, 12>>
CMD_GET_STATUS == <<1, 0>>
CMD_PREFIX == <<3, 8>>
CMD_SUFFIX == <<8, 3>>
CMD_TOGGLE == <<10, 10>>
CMD_SET_ANIMATION_MODE == <<2, 12>>
CMD_SET_BRIGHTNESS == <<2, 10>>
CMD_SET_COLOR == <<2, 2>>
CMD_SET_SEGMENTS == <<2, 14>>
CMD_SET_LEDS_PER_SEGMENT == <<2, 13>>
CMD_SET_WHITE_BRIGHTNESS == <<0, 8>>
CMD_SET_SPEED == <<0, 3>>
CMD_SET_DREAM_MODE == <<2, 12>>
NO_PARAMETER == <<0, 0, 0, 0, 0, 0>>

CHIP_TYPES == <<"SM16703", "TM1804", "UCS1903">>
COLOR_ORDERS == <<"RGB", "RBG", "GRB", "GBR", "BRG", "BGR">>

---------------------------------------------------------------------------
(* String and buffer helpers, as the JavaScript runtime computes them *)

Min(a, b) == IF a < b THEN a ELSE b
Max(a, b) == IF a > b THEN a ELSE b

\* Number.prototype.toString(16) of a non-negative integer
RECURSIVE toString16(_)
toString16(n) == IF n < 16 THEN <<n>> ELSE toString16(n \div 16) \o <<n % 16>>

\* String.prototype.padStart(len, d) / padEnd(len, d) with a one-char filler
RECURSIVE padStart(_, _, _)
padStart(s, len, d) == IF Len(s) >= len THEN s ELSE padStart(<<d>> \o s, len, d)

RECURSIVE padEnd(_, _, _)
padEnd(s, len, d) == IF Len(s) >= len THEN s ELSE padEnd(s \o <<d>>, len, d)

\* String.prototype.substring(a, b), 0-based, end exclusive, clipped to the string
substring(s, a, b) == SubSeq(s, Min(a, Len(s)) + 1, Min(b, Len(s)))

\* parseInt(s, 16) of a string of hex digits; NaN for the empty string
RECURSIVE parseInt16(_)
parseInt16(s) ==
  IF s = <<>> THEN NaN
  ELSE IF Len(s) = 1 THEN s[1]
  ELSE 16 * parseInt16(SubSeq(s, 1, Len(s) - 1)) + s[Len(s)]

\* Buffer.from(hex, 'hex'): one byte per digit pair, an odd trailing digit is dropped
RECURSIVE BufferFromHex(_)
BufferFromHex(hex) ==
  IF Len(hex) < 2 THEN <<>>
  ELSE <<16 * hex[1] + hex[2]>> \o BufferFromHex(SubSeq(hex, 3, Len(hex)))

\* Buffer.prototype.toString('hex')
RECURSIVE BufferToHex(_)
BufferToHex(buf) ==
  IF buf = <<>> THEN <<>>
  ELSE <<buf[1] \div 16, buf[1] % 16>> \o BufferToHex(Tail(buf))

\* variant of indexOf: positions counted from 1
indexOfOneBased(list, x) ==
  IF \E i \in 1..Len(list) : list[i] = x
  THEN CHOOSE i \in 1..Len(list) : list[i] = x /\ \A j \in 1..(i - 1) : list[j] # x
  ELSE -1

\* Array.prototype.indexOf: 0-based position, -1 when absent
indexOf(list, x) ==
  IF \E i \in 1..Len(list) : list[i] = x
  THEN (CHOOSE i \in 1..Len(list) : list[i] = x /\ \A j \in 1..(i - 1) : list[j] # x) - 1
  ELSE -1

intToHex(int) == padStart(toString16(int), 2, 0)

\* variant of Frame: the parameter is not padded
FrameNoPad(cmd, parameter) ==
  BufferFromHex(CMD_PREFIX \o parameter \o cmd \o CMD_SUFFIX)

\* line 328-329: the frame send() writes for (cmd, parameter)
Frame(cmd, parameter) ==
  BufferFromHex(CMD_PREFIX \o padEnd(parameter, 6, 0) \o cmd \o CMD_SUFFIX)

---------------------------------------------------------------------------
(* Status decoding: getStatus applied to the hex string send() returned *)

\* a > b and a < b of JavaScript numbers, false whenever an operand is NaN
jsGT(a, b) == a # NaN /\ b # NaN /\ a > b
jsLT(a, b) == a # NaN /\ b # NaN /\ a < b

\* variant of anyModeOf: the byte before the classification byte
anyModeOfPowerByte(response) == parseInt16(substring(response, 2, 4))

\* line 223
anyModeOf(response) == parseInt16(substring(response, 4, 6))

getStatus(response) ==
  LET anyMode == anyModeOf(response) IN
  [ rawResponse |-> response,
    on |-> (substring(response, 2, 4) = <<0, 1>>),
    animationMode |-> IF jsGT(anyMode, 180) THEN anyMode ELSE UNKNOWN_MODE,
    presetEffectMode |-> IF jsLT(anyMode, 180) THEN anyMode ELSE UNKNOWN_MODE,
    animationSpeed |-> parseInt16(substring(response, 6, 8)),
    brightness |-> parseInt16(substring(response, 8, 10)),
    colorOrder |-> parseInt16(substring(response, 10, 12)),
    ledsPerSegment |-> parseInt16(substring(response, 12, 16)),
    numberOfSegments |-> parseInt16(substring(response, 16, 20)),
    color |-> substring(response, 20, 26),
    icType |-> parseInt16(substring(response, 26, 28)),
    recordedPatterns |-> parseInt16(substring(response, 28, 30)),
    whiteBrightness |-> parseInt16(substring(response, 30, 32)) ]

\* The 17-byte status payload of a device with the given power flag and
\* classification byte (the other fields are fixed)
StatusBytes(on, mode) ==
  <<56, IF on THEN 1 ELSE 0, mode, 100, 128, 2, 0, 60, 0, 1, 255, 0, 0, 1, 0, 0, 131>>

Responses == { StatusBytes(on, b) : on \in BOOLEAN, b \in 0..255 }

---------------------------------------------------------------------------
(* The device: what it does with a frame, and what it answers *)

\* The device toggles its power on a toggle frame and takes the first
\* parameter byte of a set-animation-mode frame as its new classification byte
DeviceOn(frame, on) ==
  IF Len(frame) = 6 /\ frame[5] = 16 * CMD_TOGGLE[1] + CMD_TOGGLE[2] THEN ~on ELSE on

DeviceMode(frame, mode) ==
  IF Len(frame) = 6 /\ frame[5] = 16 * CMD_SET_ANIMATION_MODE[1] + CMD_SET_ANIMATION_MODE[2]
  THEN frame[2] ELSE mode

\* the classification bytes the device starts with: a non-static animation
\* mode and the static mode
DeviceModes == {205, ANIMATION_MODE_STATIC}

---------------------------------------------------------------------------
(* send(): the promise chain, the retry loop and one attempt *)

\* variant of QueuePred: every request is chained on the resolved initial promise
QueuePredNone(tail) == 0

\* line 385: the promise the new request is chained on
QueuePred(tail) == tail

\* variant of SendQueueCatch: the chain promise is queued itself
SendQueueNoCatch(result) == IF result = "err" THEN "rejected" ELSE "fulfilled"

\* line 387-389: the state of queued.catch(handler) once queued has settled
\* with `result`; the handler only logs, so the chain promise is fulfilled
SendQueueCatch(result) == "fulfilled"

\* variant of ShouldRetry: <= for <
ShouldRetryOnceMore(attempt) == attempt <= SEND_MAX_RETRIES

\* line 370: is a failed attempt followed by a backoff and another attempt
ShouldRetry(attempt) == attempt < SEND_MAX_RETRIES

\* variant of Backoff: linear growth
BackoffLinear(attempt) == SEND_BASE_DELAY_MS * (attempt + 1)

\* line 371
Backoff(attempt) == SEND_BASE_DELAY_MS * (2 ^ attempt)

NewReq(o, cmd, parameter, responseLength) ==
  [ op |-> o, cmd |-> cmd, parameter |-> parameter, responseLength |-> responseLength,
    pred |-> QueuePred(_sendQueue), st |-> "queued", attempt |-> 0, tries |-> 0,
    sk |-> 0,
    lastErr |-> "none", backoffs |-> <<>>, result |-> "none", error |-> "none",
    response |-> <<>>, sq |-> "pending", delivered |-> FALSE,
    timer |-> 0, paced |-> 0, t |-> 0 ]

\* variant of Settled: the reaction does not wait for the promise
SettledAlways(rq, p) == TRUE

\* line 385: a then() reaction runs once the promise it is registered on has
\* settled (p = 0 is the resolved promise _sendQueue starts as, line 80)
Settled(rq, p) == p = 0 \/ rq[p].sq # "pending"

\* line 320, 384-390: send() appends a request to the chain; a reaction on an
\* already settled promise is queued as a microtask at once
send(rq, mq, o, cmd, parameter, responseLength) ==
  LET r == NewReq(o, cmd, parameter, responseLength) IN
  [ rq |-> Append(rq, r),
    mq |-> IF Settled(rq, r.pred) THEN Append(mq, <<"start", Len(rq) + 1>>) ELSE mq ]

\* line 367-378: the catch block of the retry loop
Fail(rq, r, err) ==
  IF ShouldRetry(rq[r].attempt)
  THEN [rq EXCEPT ![r].st = "backoff", ![r].lastErr = err,
                  ![r].backoffs = Append(@, Backoff(rq[r].attempt)),
                  ![r].timer = Backoff(rq[r].attempt)]
  ELSE [rq EXCEPT ![r].st = "settled", ![r].lastErr = err,
                  ![r].result = "err", ![r].error = err, ![r].timer = 0]

\* line 366: return await attemptExecute(); the loop's lastErr goes out of scope
Succeed(rq, r, response) ==
  [rq EXCEPT ![r].st = "settled", ![r].lastErr = "none", ![r].result = "ok",
             ![r].response = response, ![r].timer = 0]

\* the reactions registered on queued_r, in registration order: the catch of
\* line 387, then the resolution of the promise send() returned (line 390)
SettleJobs(rq, r) ==
  IF rq[r].st = "settled" THEN << <<"catch", r>>, <<"deliver", r>> >> ELSE <<>>

\* socket.destroy(): the 'close' event follows later. A socket is
\* "connecting", "open", "ended" (the device ended the connection, the socket
\* closes by itself), "closing" (destroyed by the client) or "closed" (its
\* 'close' event has been delivered).
Destroy(socks, s) ==
  IF s # 0 /\ socks[s] \in {"connecting", "open", "ended"} THEN [socks EXCEPT ![s] = "closing"]
  ELSE socks

\* variant of ForceDisconnect: the socket is destroyed, the flags are kept
ForceDisconnectKeepsFlags ==
  /\ sock' = Destroy(sock, _rawSocket)
  /\ UNCHANGED <<_client, _connected, _rawSocket>>

\* the connection fields of the client, as one value
Connection ==
  [connected |-> _connected, client |-> _client, rawSocket |-> _rawSocket,
   sock |-> sock]

\* variant of forceDisconnect: the promise socket is kept
forceDisconnectKeepsClient(c) ==
  [c EXCEPT !.sock = Destroy(c.sock, c.rawSocket), !.connected = FALSE]

\* line 158-164: _forceDisconnect(); destroy() of an undefined (?.) or of an
\* already destroyed socket does nothing and does not throw
forceDisconnect(c) ==
  [c EXCEPT !.sock = Destroy(c.sock, c.rawSocket), !.client = 0,
            !.connected = FALSE]

\* line 158-164, applied to the client
ForceDisconnect ==
  LET c == forceDisconnect(Connection) IN
  /\ sock' = c.sock
  /\ _client' = c.client
  /\ _connected' = c.connected
  /\ _rawSocket' = c.rawSocket

\* line 99-106, run for an 'error' event of socket s, which Node then destroys
SocketErrorHandler(s) ==
  /\ _connected' = FALSE
  /\ sock' = Destroy(Destroy(sock, _rawSocket), s)
  /\ _client' = 0
  /\ UNCHANGED _rawSocket

\* variant of BeginAttempt: ensureConnected opens a socket whatever the state
BeginAttemptAlwaysConnects(rq, r) ==
  /\ sock' = Append(Destroy(sock, _rawSocket), "connecting")
  /\ _rawSocket' = Len(sock) + 1
  /\ req' = [rq EXCEPT ![r].st = "connecting", ![r].sk = Len(sock) + 1,
                       ![r].tries = @ + 1, ![r].timer = SEND_TIMEOUT_MS]
  /\ UNCHANGED <<_connected, _client>>

\* variant of BeginAttempt: the frame is handed to the current socket without
\* ensureConnected
BeginAttemptWritesAtOnce(rq, r) ==
  /\ req' = [rq EXCEPT ![r].st = "writing", ![r].sk = _rawSocket,
                       ![r].tries = @ + 1, ![r].timer = 0]
  /\ UNCHANGED connVars

\* line 321-332 up to the write: ensureConnected (line 87-97, 144-149), then
\* the frame is handed to the socket
BeginAttempt(rq, r) ==
  IF _connected /\ _client # 0
  THEN /\ req' = [rq EXCEPT ![r].st = "writing", ![r].sk = _client,
                            ![r].tries = @ + 1, ![r].timer = 0]
       /\ UNCHANGED connVars
  ELSE /\ sock' = Append(Destroy(sock, _rawSocket), "connecting")
       /\ _rawSocket' = Len(sock) + 1
       /\ req' = [rq EXCEPT ![r].st = "connecting", ![r].sk = Len(sock) + 1,
                            ![r].tries = @ + 1, ![r].timer = SEND_TIMEOUT_MS]
       /\ UNCHANGED <<_connected, _client>>

\* Macrotasks (timers, socket I/O events) run when no microtask is pending.
\* Node emits the 'close' event of a destroyed or ended socket at the end of
\* the loop iteration that destroyed it, ahead of every later timer and of the
\* I/O of later iterations.
ClosePending == \E s \in 1..Len(sock) : sock[s] \in {"closing", "ended"}

Macrotask == micro = <<>> /\ ~ClosePending

\* The poll phase of an iteration comes before its close callbacks: a connect
\* that completes at once (a peer on the same host) is reported before the
\* 'close' of a socket destroyed earlier in the iteration.
PollPhase == micro = <<>>

CanFault == faults > 0

\* variant of ConnectOk: the 'connect' listener outlives the connect timeout
ConnectOkLate(r) ==
  /\ PollPhase
  /\ req[r].st \in {"connecting", "backoff"}
  /\ sock' = IF sock[req[r].sk] = "connecting" THEN [sock EXCEPT ![req[r].sk] = "open"]
             ELSE sock
  /\ _client' = _rawSocket
  /\ _connected' = TRUE
  /\ req' = IF req[r].st = "connecting"
            THEN [req EXCEPT ![r].st = "writing", ![r].sk = _rawSocket, ![r].timer = 0]
            ELSE req
  /\ UNCHANGED <<_rawSocket, _sendQueue, micro, ops, devVars, faults, decVars, accVars>>

\* line 117-123, 152-155: 'connect' arrives before the connect timeout
ConnectOk(r) ==
  /\ PollPhase
  /\ req[r].st = "connecting"
  /\ sock[req[r].sk] = "connecting"
  /\ sock' = [sock EXCEPT ![req[r].sk] = "open"]
  /\ _client' = _rawSocket
  /\ _connected' = TRUE
  /\ req' = [req EXCEPT ![r].st = "writing", ![r].sk = _rawSocket, ![r].timer = 0]
  /\ UNCHANGED <<_rawSocket, _sendQueue, micro, ops, devVars, faults, decVars, accVars>>

\* line 99-106 and 124-130: the connecting socket emits 'error'
ConnectError(r) ==
  /\ Macrotask /\ CanFault
  /\ req[r].st = "connecting"
  /\ sock[req[r].sk] = "connecting"
  /\ SocketErrorHandler(req[r].sk)
  /\ req' = Fail(req, r, "connect_error")
  /\ micro' = micro \o SettleJobs(req', r)
  /\ faults' = faults - 1
  /\ UNCHANGED <<_sendQueue, ops, devVars, decVars, accVars>>

\* line 131-137: the connect timer fires first
ConnectTimeout(r) ==
  /\ Macrotask /\ CanFault
  /\ req[r].st = "connecting"
  /\ sock[req[r].sk] = "connecting"
  /\ sock' = Destroy(sock, _rawSocket)
  /\ req' = Fail(req, r, "connect_timeout")
  /\ micro' = micro \o SettleJobs(req', r)
  /\ faults' = faults - 1
  /\ UNCHANGED <<_connected, _client, _rawSocket, _sendQueue, ops, devVars, decVars, accVars>>

\* line 131-137: the connecting socket was destroyed, neither 'connect' nor
\* 'error' arrives and the connect timer fires
ConnectTimeoutOnDeadSocket(r) ==
  /\ Macrotask
  /\ req[r].st = "connecting"
  /\ sock[req[r].sk] # "connecting"
  /\ sock' = Destroy(sock, _rawSocket)
  /\ req' = Fail(req, r, "connect_timeout")
  /\ micro' = micro \o SettleJobs(req', r)
  /\ UNCHANGED <<_connected, _client, _rawSocket, _sendQueue, ops, devVars, faults,
                 decVars, accVars>>

\* line 332-354: the write completes; the device has the frame
WriteOk(r) ==
  /\ Macrotask
  /\ req[r].st = "writing"
  /\ sock[req[r].sk] = "open"
  /\ LET frame == Frame(req[r].cmd, req[r].parameter) IN
       /\ wire' = Append(wire, [frame |-> frame, r |-> r])
       /\ devOn' = DeviceOn(frame, devOn)
       /\ devMode' = DeviceMode(frame, devMode)
  /\ IF req[r].responseLength > 0
     THEN IF _client = 0
          THEN \* this._client.read on undefined throws inside the try block
               /\ ForceDisconnect
               /\ req' = Fail(req, r, "type_error")
          ELSE \* line 338-344: the read timer t is armed
               /\ req' = [req EXCEPT ![r].st = "reading", ![r].sk = _client,
                                     ![r].timer = SEND_TIMEOUT_MS, ![r].t = @ + 1]
               /\ UNCHANGED connVars
     ELSE /\ req' = [req EXCEPT ![r].st = "pacing", ![r].timer = SLEEP_MS]
          /\ UNCHANGED connVars
  /\ micro' = micro \o SettleJobs(req', r)
  /\ UNCHANGED <<_sendQueue, ops, faults, decVars, accVars>>

\* line 355-359: the socket emits 'error' during the write
WriteError(r) ==
  /\ Macrotask /\ CanFault
  /\ req[r].st = "writing"
  /\ sock[req[r].sk] = "open"
  /\ SocketErrorHandler(req[r].sk)
  /\ req' = Fail(req, r, "write_error")
  /\ micro' = micro \o SettleJobs(req', r)
  /\ faults' = faults - 1
  /\ UNCHANGED <<_sendQueue, ops, devVars, decVars, accVars>>

\* line 355-359: the write is rejected because the socket is already
\* destroyed or ended
WriteOnDeadSocket(r) ==
  /\ Macrotask
  /\ req[r].st = "writing"
  /\ sock[req[r].sk] # "open"
  /\ ForceDisconnect
  /\ req' = Fail(req, r, "write_error")
  /\ micro' = micro \o SettleJobs(req', r)
  /\ UNCHANGED <<_sendQueue, ops, devVars, faults, decVars, accVars>>

\* line 345-349: the response arrives before the read timeout; the timer is
\* cleared
ReadOk(r) ==
  /\ Macrotask
  /\ req[r].st = "reading"
  /\ sock[req[r].sk] = "open"
  /\ req' = [Succeed(req, r, BufferToHex(StatusBytes(devOn, devMode))) EXCEPT ![r].t = @ - 1]
  /\ micro' = micro \o SettleJobs(req', r)
  /\ UNCHANGED <<connVars, _sendQueue, ops, devVars, faults, decVars, accVars>>

\* line 345-349: the device ends the connection, read() resolves with undefined
ReadEof(r) ==
  /\ Macrotask /\ CanFault
  /\ req[r].st = "reading"
  /\ sock[req[r].sk] = "open"
  /\ sock' = [sock EXCEPT ![req[r].sk] = "ended"]
  /\ req' = [Succeed(req, r, <<>>) EXCEPT ![r].t = @ - 1]
  /\ micro' = micro \o SettleJobs(req', r)
  /\ faults' = faults - 1
  /\ UNCHANGED <<_connected, _client, _rawSocket, _sendQueue, ops, devVars, decVars, accVars>>

\* line 345-349: the socket was destroyed under the pending read, which
\* resolves with undefined at the 'close' event
ReadOnDeadSocket(r) ==
  /\ Macrotask
  /\ req[r].st = "reading"
  /\ sock[req[r].sk] # "open"
  /\ req' = [Succeed(req, r, <<>>) EXCEPT ![r].t = @ - 1]
  /\ micro' = micro \o SettleJobs(req', r)
  /\ UNCHANGED <<connVars, _sendQueue, ops, devVars, faults, decVars, accVars>>

\* line 345 and 355-359: the socket emits 'error' during the read; the race
\* rejects, line 346-348 is skipped and the read timer stays armed
ReadError(r) ==
  /\ Macrotask /\ CanFault
  /\ req[r].st = "reading"
  /\ sock[req[r].sk] = "open"
  /\ SocketErrorHandler(req[r].sk)
  /\ req' = Fail(req, r, "read_error")
  /\ micro' = micro \o SettleJobs(req', r)
  /\ faults' = faults - 1
  /\ UNCHANGED <<_sendQueue, ops, devVars, decVars, accVars>>

\* variant of ReadTimeout: the timeout ends the request at once
ReadTimeoutEndsRequest(r) ==
  /\ Macrotask /\ CanFault
  /\ req[r].st = "reading"
  /\ ForceDisconnect
  /\ req' = [req EXCEPT ![r].st = "settled", ![r].lastErr = "read_timeout",
                         ![r].result = "err", ![r].error = "read_timeout",
                         ![r].timer = 0, ![r].t = @ - 1]
  /\ micro' = micro \o SettleJobs(req', r)
  /\ faults' = faults - 1
  /\ UNCHANGED <<_sendQueue, ops, devVars, decVars, accVars>>

\* line 339-343 and 355-359: the read timer fires first
ReadTimeout(r) ==
  /\ Macrotask /\ CanFault
  /\ req[r].st = "reading"
  /\ ForceDisconnect
  /\ req' = [Fail(req, r, "read_timeout") EXCEPT ![r].t = @ - 1]
  /\ micro' = micro \o SettleJobs(req', r)
  /\ faults' = faults - 1
  /\ UNCHANGED <<_sendQueue, ops, devVars, decVars, accVars>>

\* the read timers of request r that are armed although their attempt is over
Leftover(r) == req[r].t - (IF req[r].st = "reading" THEN 1 ELSE 0)

\* line 339-343: a read timer that was not cleared fires, whatever the client
\* is doing by then; its reject() finds the promise already settled
LeftoverReadTimer(r) ==
  /\ Macrotask
  /\ Leftover(r) > 0
  /\ ForceDisconnect
  /\ req' = [req EXCEPT ![r].t = @ - 1]
  /\ UNCHANGED <<_sendQueue, micro, ops, devVars, faults, decVars, accVars>>

\* line 353-354, 393-395: the pacing timer of a write-only command fires
PacingDone(r) ==
  /\ Macrotask
  /\ req[r].st = "pacing"
  /\ req' = [Succeed(req, r, <<>>) EXCEPT ![r].paced = req[r].timer]
  /\ micro' = micro \o SettleJobs(req', r)
  /\ UNCHANGED <<connVars, _sendQueue, ops, devVars, faults, decVars, accVars>>

\* line 373-374, 364, 381: the backoff timer fires, the loop goes on
BackoffDone(r) ==
  /\ Macrotask
  /\ req[r].st = "backoff"
  /\ IF req[r].attempt + 1 <= SEND_MAX_RETRIES
     THEN /\ BeginAttempt([req EXCEPT ![r].attempt = @ + 1], r)
          /\ UNCHANGED micro
     ELSE /\ req' = [req EXCEPT ![r].attempt = @ + 1, ![r].st = "settled",
                                ![r].result = "err", ![r].error = req[r].lastErr,
                                ![r].timer = 0]
          /\ micro' = micro \o SettleJobs(req', r)
          /\ UNCHANGED connVars
  /\ UNCHANGED <<_sendQueue, ops, devVars, faults, decVars, accVars>>

\* variant of SocketCloseEvent: the handler leaves the flags alone
SocketCloseEventKeepsFlags(s) ==
  /\ micro = <<>>
  /\ sock[s] \in {"closing", "ended"}
  /\ sock' = [sock EXCEPT ![s] = "closed"]
  /\ UNCHANGED <<_connected, _client, _rawSocket, _sendQueue, req, micro, ops, devVars,
                 faults, decVars, accVars>>

\* line 108-112: the 'close' event of a destroyed or ended socket
SocketCloseEvent(s) ==
  /\ micro = <<>>
  /\ sock[s] \in {"closing", "ended"}
  /\ sock' = [sock EXCEPT ![s] = "closed"]
  /\ _connected' = FALSE
  /\ _client' = 0
  /\ UNCHANGED <<_rawSocket, _sendQueue, req, micro, ops, devVars, faults, decVars, accVars>>

Idle == \A r \in 1..Len(req) : req[r].st = "settled"

\* the device drops the connection while no request is in progress
DeviceCloses ==
  /\ Macrotask /\ CanFault
  /\ Idle
  /\ _client # 0
  /\ sock[_client] = "open"
  /\ sock' = [sock EXCEPT ![_client] = "ended"]
  /\ faults' = faults - 1
  /\ UNCHANGED <<_connected, _client, _rawSocket, _sendQueue, req, micro, ops, devVars, decVars, accVars>>

\* line 99-106: the socket emits 'error' (a reset by the device) while no
\* request is in progress
IdleSocketError ==
  /\ Macrotask /\ CanFault
  /\ Idle
  /\ _client # 0
  /\ sock[_client] = "open"
  /\ SocketErrorHandler(_client)
  /\ faults' = faults - 1
  /\ UNCHANGED <<_sendQueue, req, micro, ops, devVars, decVars, accVars>>

---------------------------------------------------------------------------
(* The client operations built on send() *)

\* variant of onNeedsToggle: on() toggles whatever the status says
onAlwaysToggles(status) == TRUE

\* line 212 and 202: does on() / off() go on to toggle
onNeedsToggle(status) == ~status.on
offNeedsToggle(status) == status.on

\* line 279: does setColor() switch to the static mode first
setColorNeedsStatic(status) == status.animationMode = 0

\* the operations that are one send(): a read command, a write-only command
\* and the toggle with its acknowledgement
SendCalls ==
  { [kind |-> "getStatus", arg |-> 0],
    [kind |-> "toggleOnOff", arg |-> 0],
    [kind |-> "setBrightness", arg |-> 128] }

\* the operations built from several steps, with their arguments
Calls ==
  { [kind |-> "on", arg |-> 0],
    [kind |-> "off", arg |-> 0],
    [kind |-> "setColor", arg |-> <<15, 15, 0, 0, 10, 10>>],
    [kind |-> "setChipType", arg |-> "TM1804"],
    [kind |-> "setChipType", arg |-> "NOCHIP"],
    [kind |-> "setColorOrder", arg |-> "BGR"],
    [kind |-> "setColorOrder", arg |-> "XYZ"] }

\* the opcodes the client sends
Opcodes ==
  { CMD_SET_CHIP_TYPE, CMD_SET_COLOR_ORDER, CMD_SET_SEGMENTS, CMD_SET_LEDS_PER_SEGMENT,
    CMD_GET_STATUS, CMD_TOGGLE, CMD_SET_ANIMATION_MODE, CMD_SET_BRIGHTNESS,
    CMD_SET_WHITE_BRIGHTNESS, CMD_SET_SPEED, CMD_SET_COLOR, CMD_SET_DREAM_MODE }

\* hex parameters of 0 to 3 whole bytes
Parameters ==
  UNION { [1..n -> HexDigits] : n \in {0, 2, 4, 6} }

\* line 320: send(cmd, parameter) called as the write-only operations call it,
\* for every opcode and parameter
FrameCalls ==
  { [kind |-> "send", arg |-> [cmd |-> c, parameter |-> p, responseLength |-> 0]] :
      c \in Opcodes, p \in Parameters }

\* line 259: Math.ceil((brightness / 100) * 255), for the percentages whose
\* quotient and product are exact in floating point
brightnessOfPercentage(brightness) == (brightness * 255 + 99) \div 100

\* the multiples of 50 up to 150
Percentages == {0, 50, 100, 150}

\* line 182-188, 258-260: the setters that pass an integer to intToHex
IntCalls ==
  { [kind |-> k, arg |-> n] : k \in {"setSegments", "setLedsPerSegment"}, n \in 0..MaxInt }
  \cup { [kind |-> "setBrightnessPercentage", arg |-> n] : n \in Percentages }

\* the handlers of the accessory: the status poll and the preset switch
AccCalls ==
  { [kind |-> "pollStatus", arg |-> 0],
    [kind |-> "setPresetModeOn", arg |-> TRUE],
    [kind |-> "setPresetModeOn", arg |-> FALSE] }

\* the largest number of send() calls one operation makes
Sends(kind) ==
  CASE kind \in {"on", "off"} -> 2
    [] kind \in {"setColor", "setPresetModeOn"} -> 3
    [] OTHER -> 1

RECURSIVE Reserved(_)
Reserved(os) == IF os = <<>> THEN 0 ELSE Sends(Head(os).kind) + Reserved(Tail(os))

NewOp(c, phase) == [kind |-> c.kind, arg |-> c.arg, phase |-> phase, status |-> <<>>]

\* The preset effects the accessory offers
InPresetEffects(mode) == mode \in 0..179

\* platformAccessory.ts line 640-657: setPresetModeOn once the device is on;
\* the command is sent without awaiting it
setPresetModeOnTail(o, value, mq, os) ==
  LET held == deviceStatus[1]
      currentPresetMode ==
        IF held.presetEffectMode # UNKNOWN_MODE THEN held.presetEffectMode
        ELSE presetEffectNumber
      number == IF value THEN currentPresetMode ELSE presetEffectNumber
      s == IF value
           THEN send(req, mq, o, CMD_SET_DREAM_MODE, intToHex(Min(Max(number, 0), 179)), 0)
           ELSE send(req, mq, o, CMD_SET_ANIMATION_MODE, intToHex(ANIMATION_MODE_STATIC), 0)
  IN /\ presetOn' = value
     /\ presetEffectNumber' = number
     /\ deviceStatus' = IF value
                        THEN <<[held EXCEPT !.presetEffectMode = currentPresetMode]>>
                        ELSE deviceStatus
     /\ req' = s.rq
     /\ micro' = s.mq
     /\ _sendQueue' = Len(s.rq)
     /\ ops' = os

\* platformAccessory.ts line 617-639: setPresetModeOn up to its first await
setPresetModeOn(c, o) ==
  LET value == c.arg IN
  IF deviceStatus = <<>>
  THEN \* reading a field of undefined throws, the handler reports a failure
       /\ ops' = Append(ops, NewOp(c, "failed"))
       /\ UNCHANGED <<req, micro, _sendQueue, accVars>>
  ELSE IF \/ value /\ deviceStatus[1].presetEffectMode # UNKNOWN_MODE /\ presetOn
          \/ ~value /\ deviceStatus[1].presetEffectMode = UNKNOWN_MODE /\ ~presetOn
  THEN /\ ops' = Append(ops, NewOp(c, "done"))
       /\ UNCHANGED <<req, micro, _sendQueue, accVars>>
  ELSE IF ~deviceStatus[1].on
  THEN \* await this.device.on(), which starts with a status query
       LET s == send(req, micro, o, CMD_GET_STATUS, NO_PARAMETER, STATUS_LENGTH) IN
         /\ ops' = Append(ops, NewOp(c, "on_status"))
         /\ req' = s.rq
         /\ micro' = s.mq
         /\ _sendQueue' = Len(s.rq)
         /\ UNCHANGED accVars
  ELSE setPresetModeOnTail(o, value, micro, Append(ops, NewOp(c, "final")))

\* a caller (a HomeKit handler, a timer callback) invokes an operation of the
\* client; the code up to its first await runs
Call(c) ==
  /\ micro = <<>>
  /\ LET o == Len(ops) + 1
         list == IF c.kind = "setChipType" THEN CHIP_TYPES ELSE COLOR_ORDERS
         index == indexOf(list, c.arg)
         s == CASE c.kind \in {"getStatus", "pollStatus", "on", "off", "setColor"} ->
                     send(req, micro, o, CMD_GET_STATUS, NO_PARAMETER, STATUS_LENGTH)
                [] c.kind = "toggleOnOff" ->
                     send(req, micro, o, CMD_TOGGLE, NO_PARAMETER, STATUS_LENGTH)
                [] c.kind = "setBrightness" ->
                     send(req, micro, o, CMD_SET_BRIGHTNESS, intToHex(c.arg), 0)
                [] c.kind = "setBrightnessPercentage" ->
                     send(req, micro, o, CMD_SET_BRIGHTNESS,
                          intToHex(brightnessOfPercentage(c.arg)), 0)
                [] c.kind = "setSegments" ->
                     send(req, micro, o, CMD_SET_SEGMENTS, intToHex(c.arg), 0)
                [] c.kind = "setLedsPerSegment" ->
                     send(req, micro, o, CMD_SET_LEDS_PER_SEGMENT, intToHex(c.arg), 0)
                [] c.kind = "setChipType" ->
                     send(req, micro, o, CMD_SET_CHIP_TYPE, intToHex(index), 0)
                [] c.kind = "setColorOrder" ->
                     send(req, micro, o, CMD_SET_COLOR_ORDER, intToHex(index), 0)
                [] c.kind = "send" ->
                     send(req, micro, o, c.arg.cmd, c.arg.parameter, c.arg.responseLength)
     IN IF c.kind = "setPresetModeOn"
        THEN setPresetModeOn(c, o)
        ELSE /\ IF c.kind \in {"setChipType", "setColorOrder"} /\ index = -1
                THEN \* line 168-170, 176-178: throw before send() is reached
                     /\ ops' = Append(ops, NewOp(c, "failed"))
                     /\ UNCHANGED <<req, micro, _sendQueue>>
                ELSE /\ ops' = Append(ops, NewOp(c, IF c.kind \in {"on", "off", "setColor"}
                                                    THEN "status" ELSE "final"))
                     /\ req' = s.rq
                     /\ micro' = s.mq
                     /\ _sendQueue' = Len(s.rq)
             /\ UNCHANGED accVars
  /\ UNCHANGED <<connVars, devVars, faults, decVars>>

---------------------------------------------------------------------------
(* Microtasks: the promise reactions *)

Job(kind) == micro # <<>> /\ Head(micro)[1] = kind

\* line 385: the reaction of _sendQueue.then(() => executeWithRetries()); a
\* rejected chain promise rejects queued without running the request
RunStart ==
  /\ Job("start")
  /\ LET r == Head(micro)[2]
         p == req[r].pred
     IN IF p # 0 /\ req[p].sq = "rejected"
        THEN /\ req' = [req EXCEPT ![r].st = "settled", ![r].result = "err",
                                   ![r].error = req[p].error]
             /\ micro' = Tail(micro) \o SettleJobs(req', r)
             /\ UNCHANGED connVars
        ELSE /\ BeginAttempt(req, r)
             /\ micro' = Tail(micro)
  /\ UNCHANGED <<_sendQueue, ops, devVars, faults, decVars, accVars>>

\* variant of Waiting: no reaction is registered on the chain promise
WaitingNone(rq, r, q) == <<>>

\* the requests whose then() reaction is registered on the chain promise of r
RECURSIVE Waiting(_, _, _)
Waiting(rq, r, q) ==
  IF q > Len(rq) THEN <<>>
  ELSE (IF rq[q].pred = r /\ rq[q].st = "queued" THEN << <<"start", q>> >> ELSE <<>>)
       \o Waiting(rq, r, q + 1)

\* line 387-389: the reaction of queued.catch(...); the chain promise settles
RunCatch ==
  /\ Job("catch")
  /\ LET r == Head(micro)[2] IN
       /\ req' = [req EXCEPT ![r].sq = SendQueueCatch(req[r].result)]
       /\ micro' = Tail(micro) \o Waiting(req, r, 1)
  /\ UNCHANGED <<connVars, _sendQueue, ops, devVars, faults, decVars, accVars>>

\* line 390: the promise send() returned settles with the outcome of queued
RunDeliver ==
  /\ Job("deliver")
  /\ LET r == Head(micro)[2] IN
       /\ req' = [req EXCEPT ![r].delivered = TRUE]
       /\ micro' = Tail(micro) \o << <<"resume", r>> >>
  /\ UNCHANGED <<connVars, _sendQueue, ops, devVars, faults, decVars, accVars>>

\* the caller's code after `await this.send(...)`
RunResume ==
  /\ Job("resume")
  /\ LET r == Head(micro)[2]
         o == req[r].op
         op == ops[o]
         mq == Tail(micro)
         status == getStatus(req[r].response)
         toggle == send(req, mq, o, CMD_TOGGLE, NO_PARAMETER, STATUS_LENGTH)
         static == send(req, mq, o, CMD_SET_ANIMATION_MODE,
                        intToHex(ANIMATION_MODE_STATIC), 0)
         color == send(req, mq, o, CMD_SET_COLOR, op.arg, 0)
         Then(s, phase, st) ==
           /\ req' = s.rq
           /\ micro' = s.mq
           /\ _sendQueue' = Len(s.rq)
           /\ ops' = [ops EXCEPT ![o].phase = phase, ![o].status = st]
           /\ UNCHANGED accVars
         End(phase, st) ==
           /\ ops' = [ops EXCEPT ![o].phase = phase, ![o].status = st]
           /\ micro' = mq
           /\ UNCHANGED <<req, _sendQueue, accVars>>
         Preset == setPresetModeOnTail(o, op.arg, mq, [ops EXCEPT ![o].phase = "final"])
     IN IF req[r].result # "ok" THEN End("failed", op.status)
        ELSE CASE op.phase = "final" /\ op.kind = "pollStatus" ->
                    \* platformAccessory.ts line 301, 328-331
                    /\ deviceStatus' = <<status>>
                    /\ presetEffectNumber' =
                         IF /\ status.presetEffectMode # UNKNOWN_MODE
                            /\ status.on
                            /\ InPresetEffects(status.presetEffectMode)
                         THEN status.presetEffectMode
                         ELSE presetEffectNumber
                    /\ ops' = [ops EXCEPT ![o].phase = "done", ![o].status = <<status>>]
                    /\ micro' = mq
                    /\ UNCHANGED <<req, _sendQueue, presetOn>>
               [] op.phase = "on_status" ->
                    IF onNeedsToggle(status) THEN Then(toggle, "on_toggle", op.status)
                    ELSE Preset
               [] op.phase = "on_toggle" -> Preset
               [] op.phase = "status" /\ op.kind = "on" ->
                    IF onNeedsToggle(status) THEN Then(toggle, "final", <<status>>)
                    ELSE End("done", <<status>>)
               [] op.phase = "status" /\ op.kind = "off" ->
                    IF offNeedsToggle(status) THEN Then(toggle, "final", <<status>>)
                    ELSE End("done", <<status>>)
               [] op.phase = "status" /\ op.kind = "setColor" ->
                    IF setColorNeedsStatic(status) THEN Then(static, "mode", <<status>>)
                    ELSE Then(color, "final", <<status>>)
               [] op.phase = "mode" -> Then(color, "final", op.status)
               [] op.phase = "final" /\ op.kind # "pollStatus" ->
                    End("done", IF op.kind = "getStatus" THEN <<status>> ELSE op.status)
  /\ UNCHANGED <<connVars, devVars, faults, decVars>>

---------------------------------------------------------------------------
(* The client and the device, from construction *)

Init ==
  /\ _connected = FALSE
  /\ _client = 0
  /\ _rawSocket = 0
  /\ _sendQueue = 0
  /\ sock = <<>>
  /\ req = <<>>
  /\ micro = <<>>
  /\ ops = <<>>
  /\ wire = <<>>
  /\ devOn = FALSE
  /\ devMode = ANIMATION_MODE_STATIC
  /\ faults = MaxFaults
  /\ rawResponse = <<>>
  /\ decoded = <<>>
  /\ deviceStatus = <<>>
  /\ presetOn = FALSE
  /\ presetEffectNumber = defaultDreamModeNumber

\* what the client, the event loop and the network do, whoever the callers are
Run ==
  \/ RunStart
  \/ RunCatch
  \/ RunDeliver
  \/ RunResume
  \/ \E r \in 1..Len(req) : ConnectOk(r)
  \/ \E r \in 1..Len(req) : ConnectError(r)
  \/ \E r \in 1..Len(req) : ConnectTimeout(r)
  \/ \E r \in 1..Len(req) : WriteOk(r)
  \/ \E r \in 1..Len(req) : WriteError(r)
  \/ \E r \in 1..Len(req) : WriteOnDeadSocket(r)
  \/ \E r \in 1..Len(req) : ReadOk(r)
  \/ \E r \in 1..Len(req) : ReadEof(r)
  \/ \E r \in 1..Len(req) : ReadError(r)
  \/ \E r \in 1..Len(req) : ReadTimeout(r)
  \/ \E r \in 1..Len(req) : PacingDone(r)
  \/ \E r \in 1..Len(req) : BackoffDone(r)
  \/ \E s \in 1..Len(sock) : SocketCloseEvent(s)
  \/ DeviceCloses
  \/ IdleSocketError
  \/ \E r \in 1..Len(req) : LeftoverReadTimer(r)
  \/ \E r \in 1..Len(req) : ConnectTimeoutOnDeadSocket(r)
  \/ \E r \in 1..Len(req) : ReadOnDeadSocket(r)

\* Spec: callers issue single send() operations, the network may fail often
Next ==
  \/ \E c \in SendCalls : Len(ops) < MaxSends /\ Call(c)
  \/ Run

Spec == Init /\ [][Next]_vars

\* LiveSpec: the same, with the event loop's guarantee that a pending promise
\* reaction is run and an armed timer or a pending socket operation
\* eventually fires or reports; callers are never obliged to call
LiveInit ==
  /\ _connected = FALSE
  /\ _client = 0
  /\ _rawSocket = 0
  /\ _sendQueue = 0
  /\ sock = <<>>
  /\ req = <<>>
  /\ micro = <<>>
  /\ ops = <<>>
  /\ wire = <<>>
  /\ devOn = FALSE
  /\ devMode = ANIMATION_MODE_STATIC
  /\ faults = MaxLiveFaults
  /\ rawResponse = <<>>
  /\ decoded = <<>>
  /\ deviceStatus = <<>>
  /\ presetOn = FALSE
  /\ presetEffectNumber = defaultDreamModeNumber

LiveSpec == LiveInit /\ [][Next]_vars /\ WF_vars(Run)

\* FrameSpec: one write-only send() of any opcode and parameter on a network
\* that does not fail
FrameInit ==
  /\ _connected = FALSE
  /\ _client = 0
  /\ _rawSocket = 0
  /\ _sendQueue = 0
  /\ sock = <<>>
  /\ req = <<>>
  /\ micro = <<>>
  /\ ops = <<>>
  /\ wire = <<>>
  /\ devOn = FALSE
  /\ devMode = ANIMATION_MODE_STATIC
  /\ faults = 0
  /\ rawResponse = <<>>
  /\ decoded = <<>>
  /\ deviceStatus = <<>>
  /\ presetOn = FALSE
  /\ presetEffectNumber = defaultDreamModeNumber

FrameNext ==
  \/ Len(ops) < MaxFrameCalls /\ \E c \in FrameCalls : Call(c)
  \/ RunStart
  \/ RunCatch
  \/ RunDeliver
  \/ RunResume
  \/ \E r \in 1..Len(req) : ConnectOk(r)
  \/ \E r \in 1..Len(req) : WriteOk(r)
  \/ \E r \in 1..Len(req) : PacingDone(r)

FrameSpec == FrameInit /\ [][FrameNext]_vars

\* IntSpec: one call of a setter that encodes an integer, on a network that
\* does not fail
IntInit == FrameInit

IntNext ==
  \/ Len(ops) < MaxIntCalls /\ \E c \in IntCalls : Call(c)
  \/ RunStart
  \/ RunCatch
  \/ RunDeliver
  \/ RunResume
  \/ \E r \in 1..Len(req) : ConnectOk(r)
  \/ \E r \in 1..Len(req) : WriteOk(r)
  \/ \E r \in 1..Len(req) : PacingDone(r)

IntSpec == IntInit /\ [][IntNext]_vars

\* AccSpec: the accessory, initialize() having set presetOn, polls the status
\* and handles the preset switch
AccInit ==
  /\ _connected = FALSE
  /\ _client = 0
  /\ _rawSocket = 0
  /\ _sendQueue = 0
  /\ sock = <<>>
  /\ req = <<>>
  /\ micro = <<>>
  /\ ops = <<>>
  /\ wire = <<>>
  /\ devOn \in BOOLEAN
  /\ devMode \in DeviceModes
  /\ faults = MaxAccFaults
  /\ rawResponse = <<>>
  /\ decoded = <<>>
  /\ deviceStatus = <<>>
  /\ presetOn = FALSE
  /\ presetEffectNumber = defaultDreamModeNumber

AccNext ==
  \/ \E c \in AccCalls :
       Len(ops) < MaxAccOps /\ Reserved(ops) + Sends(c.kind) <= MaxReq /\ Call(c)
  \/ Run

AccSpec == AccInit /\ [][AccNext]_vars

\* platformAccessory.ts line 293-297: a tick of the interval timer sync()
\* started; the callback calls pollStatus() whatever the earlier polls are
\* doing. A tick comes while a request is in progress when the timer that
\* request waits under is at least one interval long.
sync ==
  /\ Macrotask
  /\ Len(ops) < MaxPolls
  /\ \A r \in 1..Len(req) :
       req[r].st \notin {"queued", "settled"} => req[r].timer >= POLL_INTERVAL
  /\ Call([kind |-> "pollStatus", arg |-> 0])

\* PollSpec: the accessory once initialize() has completed, with only the
\* poll timer calling the client
PollInit ==
  /\ _connected = FALSE
  /\ _client = 0
  /\ _rawSocket = 0
  /\ _sendQueue = 0
  /\ sock = <<>>
  /\ req = <<>>
  /\ micro = <<>>
  /\ ops = <<>>
  /\ wire = <<>>
  /\ devOn \in BOOLEAN
  /\ devMode \in DeviceModes
  /\ faults = MaxPollFaults
  /\ rawResponse = <<>>
  /\ decoded = <<>>
  /\ deviceStatus = <<>>
  /\ presetOn = FALSE
  /\ presetEffectNumber = defaultDreamModeNumber

PollNext ==
  \/ sync
  \/ RunStart
  \/ RunCatch
  \/ RunDeliver
  \/ RunResume
  \/ \E r \in 1..Len(req) : ConnectOk(r)
  \/ \E r \in 1..Len(req) : ConnectTimeout(r)
  \/ \E r \in 1..Len(req) : WriteOk(r)
  \/ \E r \in 1..Len(req) : ReadOk(r)
  \/ \E r \in 1..Len(req) : ReadTimeout(r)
  \/ \E r \in 1..Len(req) : BackoffDone(r)
  \/ \E s \in 1..Len(sock) : SocketCloseEvent(s)

PollSpec == PollInit /\ [][PollNext]_vars

\* IdleSpec: the device accepts every connection and answers every request,
\* but drops or resets the connection while it is idle
IdleInit ==
  /\ _connected = FALSE
  /\ _client = 0
  /\ _rawSocket = 0
  /\ _sendQueue = 0
  /\ sock = <<>>
  /\ req = <<>>
  /\ micro = <<>>
  /\ ops = <<>>
  /\ wire = <<>>
  /\ devOn = FALSE
  /\ devMode = ANIMATION_MODE_STATIC
  /\ faults = MaxIdleFaults
  /\ rawResponse = <<>>
  /\ decoded = <<>>
  /\ deviceStatus = <<>>
  /\ presetOn = FALSE
  /\ presetEffectNumber = defaultDreamModeNumber

IdleNext ==
  \/ \E c \in SendCalls : Len(ops) < MaxIdleSends /\ Call(c)
  \/ RunStart
  \/ RunCatch
  \/ RunDeliver
  \/ RunResume
  \/ \E r \in 1..Len(req) : ConnectOk(r)
  \/ \E r \in 1..Len(req) : WriteOk(r)
  \/ \E r \in 1..Len(req) : WriteOnDeadSocket(r)
  \/ \E r \in 1..Len(req) : ReadOk(r)
  \/ \E r \in 1..Len(req) : PacingDone(r)
  \/ \E r \in 1..Len(req) : BackoffDone(r)
  \/ \E s \in 1..Len(sock) : SocketCloseEvent(s)
  \/ DeviceCloses
  \/ IdleSocketError

IdleSpec == IdleInit /\ [][IdleNext]_vars

\* OpSpec: callers issue every operation of the client
OpInit ==
  /\ _connected = FALSE
  /\ _client = 0
  /\ _rawSocket = 0
  /\ _sendQueue = 0
  /\ sock = <<>>
  /\ req = <<>>
  /\ micro = <<>>
  /\ ops = <<>>
  /\ wire = <<>>
  /\ devOn \in BOOLEAN
  /\ devMode \in DeviceModes
  /\ faults = MaxOpFaults
  /\ rawResponse = <<>>
  /\ decoded = <<>>
  /\ deviceStatus = <<>>
  /\ presetOn = FALSE
  /\ presetEffectNumber = defaultDreamModeNumber

OpNext ==
  \/ \E c \in Calls :
       Len(ops) < MaxOps /\ Reserved(ops) + Sends(c.kind) <= MaxReq /\ Call(c)
  \/ Run

OpSpec == OpInit /\ [][OpNext]_vars

---------------------------------------------------------------------------
(* The status decoder on its own: every classification byte *)

DecodeInit ==
  /\ _connected = FALSE
  /\ _client = 0
  /\ _rawSocket = 0
  /\ _sendQueue = 0
  /\ sock = <<>>
  /\ req = <<>>
  /\ micro = <<>>
  /\ ops = <<>>
  /\ wire = <<>>
  /\ devOn = FALSE
  /\ devMode = ANIMATION_MODE_STATIC
  /\ faults = 0
  /\ rawResponse \in Responses
  /\ decoded = <<>>
  /\ deviceStatus = <<>>
  /\ presetOn = FALSE
  /\ presetEffectNumber = defaultDreamModeNumber

\* line 222-243: the response of the read is decoded
Decode ==
  /\ decoded = <<>>
  /\ deviceStatus = <<>>
  /\ presetOn = FALSE
  /\ presetEffectNumber = defaultDreamModeNumber
  /\ decoded' = <<getStatus(BufferToHex(rawResponse))>>
  /\ UNCHANGED <<connVars, _sendQueue, req, micro, ops, devVars, faults, rawResponse,
                 accVars>>

\* the next response is read
NextResponse ==
  /\ decoded # <<>>
  /\ rawResponse' \in Responses
  /\ decoded' = <<>>
  /\ UNCHANGED <<connVars, _sendQueue, req, micro, ops, devVars, faults, accVars>>

DecodeNext == Decode \/ NextResponse

DecodeSpec == DecodeInit /\ [][DecodeNext]_vars

---------------------------------------------------------------------------
(* Properties *)

Reqs == 1..Len(req)
Ops == 1..Len(ops)

\* between the start of the first attempt and the end of the last one
InFlight(r) == req[r].st \in {"connecting", "writing", "reading", "pacing", "backoff"}

\* the send() calls operation o has made, in call order
RECURSIVE ReqsOfFrom(_, _)
ReqsOfFrom(o, r) ==
  IF r > Len(req) THEN <<>>
  ELSE (IF req[r].op = o THEN <<r>> ELSE <<>>) \o ReqsOfFrom(o, r + 1)

ReqsOf(o) == ReqsOfFrom(o, 1)

\* C1: at any moment at most one send() is in flight: the intervals from a
\* request's first attempt to the end of its last attempt (retries, backoff
\* waits and the pacing delay included) of two requests never overlap.
C1_AtMostOneInFlight ==
  \A r1 \in Reqs, r2 \in Reqs : InFlight(r1) /\ InFlight(r2) => r1 = r2

\* one request is in a backoff wait or in its pacing delay while a second,
\* concurrent call is queued behind it
C1_Witness ==
  \E r1 \in Reqs, r2 \in Reqs :
    /\ req[r1].st \in {"backoff", "pacing"}
    /\ req[r2].st = "queued"

\* C2: requests start and complete in call order: once a later call's first
\* attempt has begun, every earlier call has settled and its result (success
\* or error) has been delivered to its caller.
C2_FifoOrder ==
  \A r1 \in Reqs, r2 \in Reqs :
    r1 < r2 /\ req[r2].st # "queued" => req[r1].st = "settled" /\ req[r1].delivered

\* the earlier call has failed and its error is delivered, the later one runs
C2_Witness ==
  \E r1 \in Reqs, r2 \in Reqs :
    /\ r1 < r2
    /\ req[r1].result = "err"
    /\ req[r1].delivered
    /\ InFlight(r2)

\* C3: a request that fails after exhausting its retries does not break the
\* queue: every request, before or after the failed one, is executed (at least
\* one attempt of its own, at most 4), a request whose chain predecessor has
\* settled is started, and its outcome is decided by its own attempts alone: an
\* error only after 4 failed attempts of its own, a success after one more
\* attempt than it had failures.
C3_QueueSurvivesFailure ==
  \A r \in Reqs :
    /\ req[r].tries <= SEND_MAX_RETRIES + 1
    /\ req[r].st = "settled" =>
         /\ req[r].tries >= 1
         /\ req[r].result = "err" => req[r].tries = SEND_MAX_RETRIES + 1
         /\ req[r].result = "ok" => req[r].tries = Len(req[r].backoffs) + 1
    /\ req[r].st = "queued" /\ req[r].pred # 0 /\ req[req[r].pred].sq # "pending" =>
         \E i \in 1..Len(micro) : micro[i] = <<"start", r>>

\* after a request that exhausted its retries, the next one fails once or
\* more, is retried and succeeds
C3_Witness ==
  \E r1 \in Reqs, r2 \in Reqs :
    /\ r1 < r2
    /\ req[r1].result = "err"
    /\ req[r2].result = "ok"
    /\ req[r2].tries >= 2

\* C4: one send() makes at most 4 attempts; an error reaches the caller only
\* after the 4th attempt has failed, it is the error of that attempt, and no
\* backoff is waited after it (3 backoff waits in all).
C4_FourAttempts ==
  \A r \in Reqs :
    /\ req[r].tries <= 4
    /\ Len(req[r].backoffs) <= 3
    /\ req[r].result = "err" =>
         /\ req[r].tries = 4
         /\ Len(req[r].backoffs) = 3
         /\ req[r].error # "none"
         /\ req[r].error = req[r].lastErr

\* all four attempts of a request failed and the caller has the error
C4_Witness ==
  \E r \in Reqs : req[r].result = "err" /\ req[r].tries = 4 /\ req[r].delivered

ExpectedBackoffs == <<200, 400, 800>>

\* C5: the backoff waited after the failure of attempt i (0-indexed) is
\* 200*2^i ms: the waits of a request are 200, 400, 800 in that order, one per
\* failed attempt that is retried; while a request waits no attempt of it is
\* running and the next attempt has not begun; a request that succeeds at its
\* (k+1)-th attempt has waited exactly k delays.
C5_BackoffSchedule ==
  \A r \in Reqs :
    /\ Len(req[r].backoffs) <= Len(ExpectedBackoffs)
    /\ req[r].backoffs = SubSeq(ExpectedBackoffs, 1, Len(req[r].backoffs))
    /\ req[r].st = "backoff" => Len(req[r].backoffs) = req[r].tries
    /\ req[r].st \in {"connecting", "writing", "reading", "pacing"} =>
         Len(req[r].backoffs) = req[r].tries - 1
    /\ req[r].result = "ok" => Len(req[r].backoffs) = req[r].tries - 1

\* two failed attempts, success at the third
C5_Witness ==
  \E r \in Reqs : req[r].result = "ok" /\ req[r].tries = 3 /\ req[r].backoffs = <<200, 400>>

\* the list a configuration operation looks its name up in
ListOf(kind) == IF kind = "setChipType" THEN CHIP_TYPES ELSE COLOR_ORDERS

Known(kind, name) == \E i \in 1..Len(ListOf(kind)) : ListOf(kind)[i] = name

IsConfigOp(o) == ops[o].kind \in {"setChipType", "setColorOrder"}

C6_State ==
  \A o \in Ops : IsConfigOp(o) =>
    IF Known(ops[o].kind, ops[o].arg)
    THEN /\ Len(ReqsOf(o)) = 1
         /\ LET f == Frame(req[ReqsOf(o)[1]].cmd, req[ReqsOf(o)[1]].parameter) IN
              /\ Len(f) = 6
              /\ f[2] + 1 \in 1..Len(ListOf(ops[o].kind))
              /\ ListOf(ops[o].kind)[f[2] + 1] = ops[o].arg
              /\ f[3] = 0 /\ f[4] = 0
              /\ f[5] = (IF ops[o].kind = "setChipType" THEN 28 ELSE 60)
    ELSE /\ ops[o].phase = "failed"
         /\ ReqsOf(o) = <<>>
         /\ \A i \in 1..Len(wire) : req[wire[i].r].op # o

C6_Step ==
  (Len(ops') = Len(ops) + 1 /\ ops'[Len(ops')].phase = "failed")
    => UNCHANGED <<connVars, _sendQueue, req, micro, wire>>

\* C6: setChipType / setColorOrder with an unknown name fail at once: the call
\* appends nothing to the send queue, writes no frame and leaves the
\* connection state as it was; with a known name the one frame written
\* carries the name's index in its list as first parameter byte.
C6_InvalidNameNoIO == [](C6_State) /\ [][C6_Step]_vars

\* an unknown name was refused and a known one was written to the device
C6_Witness ==
  \E o1 \in Ops, o2 \in Ops :
    /\ IsConfigOp(o1) /\ ~Known(ops[o1].kind, ops[o1].arg) /\ ops[o1].phase = "failed"
    /\ IsConfigOp(o2) /\ Known(ops[o2].kind, ops[o2].arg)
    /\ \E i \in 1..Len(wire) : req[wire[i].r].op = o2
    /\ _connected

\* the power flag a response carries, read off the response itself
ReportsOn(response) == Len(response) >= 4 /\ response[3] = 0 /\ response[4] = 1

IsToggle(r) == req[r].cmd = CMD_TOGGLE
IsStatusQuery(r) == req[r].cmd = CMD_GET_STATUS /\ req[r].responseLength = 17

\* C7: on() and off() always issue a status query first and issue the toggle
\* only if the reported power state differs from the target: no toggle when
\* the device reports the target state already, a toggle when it reports the
\* other state, none when the status query failed.
C7_ToggleOnlyOnMismatch ==
  \A o \in Ops : ops[o].kind \in {"on", "off"} =>
    LET rs == ReqsOf(o)
        target == (ops[o].kind = "on")
    IN /\ Len(rs) \in {1, 2}
       /\ IsStatusQuery(rs[1])
       /\ Len(rs) = 2 =>
            /\ IsToggle(rs[2])
            /\ req[rs[1]].result = "ok"
            /\ ReportsOn(req[rs[1]].response) # target
       /\ ops[o].phase \in {"done", "final"} /\ ReportsOn(req[rs[1]].response) # target
            => Len(rs) = 2
       /\ ops[o].phase = "done" /\ ReportsOn(req[rs[1]].response) = target => Len(rs) = 1

\* two on() calls on a device that is on: both complete, no toggle is written
C7_Witness ==
  /\ Len(ops) = 2
  /\ \A o \in Ops : ops[o].kind = "on" /\ ops[o].phase = "done" /\ Len(ReqsOf(o)) = 1
  /\ \A r \in Reqs : ReportsOn(req[r].response)
  /\ \A i \in 1..Len(wire) : ~IsToggle(wire[i].r)
  /\ devOn

IsSetStatic(r) ==
  /\ req[r].cmd = CMD_SET_ANIMATION_MODE
  /\ Frame(req[r].cmd, req[r].parameter)[2] = ANIMATION_MODE_STATIC

\* the classification byte a response carries, read off the response itself
ReportsStatic(response) ==
  /\ Len(response) >= 6
  /\ 16 * response[5] + response[6] = ANIMATION_MODE_STATIC

\* C8: setColor reads the status first; whenever the decoded status says the
\* device is not in the static animation mode, a set-animation-mode(STATIC)
\* frame is written before the set-color frame; when it is in static mode
\* only the set-color frame is written.
C8_StaticBeforeColor ==
  \A o \in Ops : ops[o].kind = "setColor" =>
    LET rs == ReqsOf(o) IN
      /\ IsStatusQuery(rs[1])
      /\ \A i \in 2..Len(rs) : req[rs[i]].cmd = CMD_SET_COLOR =>
           IF ReportsStatic(req[rs[1]].response)
           THEN i = 2
           ELSE i = 3 /\ IsSetStatic(rs[2])

Decoded == decoded # <<>>

Known1(mode) == mode # UNKNOWN_MODE

\* C9: for every value 0..255 of the classification byte the decoded status
\* has exactly one of animationMode and presetEffectMode known and the other
\* UNKNOWN; the boundary value 180 is classified as animation mode.
C9_ExactlyOneKnown ==
  Decoded /\ Len(rawResponse) = STATUS_LENGTH =>
    /\ Known1(decoded[1].animationMode) # Known1(decoded[1].presetEffectMode)
    /\ rawResponse[3] = 180 => decoded[1].animationMode = 180

\* C10: the decoded status is a function of the response bytes: a
\* classification byte b > 180 gives animationMode = b and presetEffectMode =
\* UNKNOWN, b < 180 gives presetEffectMode = b and animationMode = UNKNOWN, the
\* power flag is byte 1 = 01, and decoding the same response again gives the
\* same fields.
C10_DecodeByRange ==
  Decoded /\ Len(rawResponse) = STATUS_LENGTH =>
    LET b == rawResponse[3] IN
      /\ b > 180 => decoded[1].animationMode = b /\ decoded[1].presetEffectMode = UNKNOWN_MODE
      /\ b < 180 => decoded[1].presetEffectMode = b /\ decoded[1].animationMode = UNKNOWN_MODE
      /\ decoded[1].on = (rawResponse[2] = 1)
      /\ decoded[1].brightness = rawResponse[5]
      /\ decoded[1] = getStatus(BufferToHex(rawResponse))

\* classification byte 200
C10_Witness ==
  /\ Decoded
  /\ rawResponse[3] = 200
  /\ decoded[1].animationMode = 200
  /\ decoded[1].presetEffectMode = UNKNOWN_MODE

\* C11: getStatus() never returns a status decoded from a malformed response:
\* every status an operation has obtained was decoded from a response of 17
\* bytes (34 hex digits); a shorter or empty response gives a failure.
C11_NoStatusFromMalformed ==
  \A o \in Ops : ops[o].kind = "getStatus" /\ ops[o].status # <<>> =>
    /\ Len(ops[o].status[1].rawResponse) = 2 * STATUS_LENGTH
    /\ ops[o].status[1].brightness # NaN

IsWriteOnly(r) == req[r].responseLength = 0

\* the positions on the wire of the frames request r has written
FramesOf(r) == { i \in 1..Len(wire) : wire[i].r = r }

\* C12: concurrent write-only calls put one frame each on the wire, in call
\* order: a write-only request writes its frame at most once, exactly once by
\* the time it has succeeded (none if all its attempts failed before the
\* write), the frames on the wire are in the order of the calls, and every
\* frame is the 6 bytes of its own request, whole.
C12_OneFramePerWrite ==
  /\ \A r \in Reqs : IsWriteOnly(r) =>
       /\ Cardinality(FramesOf(r)) <= 1
       /\ req[r].st = "pacing" \/ req[r].result = "ok" => Cardinality(FramesOf(r)) = 1
       /\ req[r].result = "err" \/ req[r].st = "queued" => FramesOf(r) = {}
  /\ \A i \in 1..Len(wire), j \in 1..Len(wire) : i < j => wire[i].r <= wire[j].r
  /\ \A i \in 1..Len(wire) :
       /\ Len(wire[i].frame) = 6
       /\ wire[i].frame = Frame(req[wire[i].r].cmd, req[wire[i].r].parameter)
  /\ (\A r \in Reqs : IsWriteOnly(r) /\ req[r].result = "ok") => Len(wire) = Len(req)

\* two write-only calls, the first retried after a failure, both completed:
\* two frames on the wire
C12_Witness ==
  /\ Len(req) = 2
  /\ \A r \in Reqs : IsWriteOnly(r) /\ req[r].result = "ok"
  /\ req[1].tries >= 2
  /\ Len(wire) = 2
  /\ wire[1].r = 1 /\ wire[2].r = 2

\* C13: a write-only command whose write succeeded is followed by the 250 ms
\* pacing delay before the next queued request's first attempt starts: while
\* the delay runs its timer is 250 ms, every later request is still queued
\* and unstarted and the last frame on the wire is the command's own; a later
\* request has left the queue only after the delay has been waited in full.
C13_PacingBeforeNext ==
  \A r \in Reqs : IsWriteOnly(r) =>
    /\ req[r].st = "pacing" =>
         /\ req[r].timer = 250
         /\ \A q \in Reqs : q > r => req[q].st = "queued" /\ req[q].tries = 0
         /\ \A i \in 1..Len(micro) : micro[i][1] # "start"
         /\ wire # <<>> /\ wire[Len(wire)].r = r
    /\ req[r].result = "ok" => req[r].paced = 250
    /\ FramesOf(r) # {} /\ (\E q \in Reqs : q > r /\ req[q].st # "queued") =>
         req[r].paced = 250

\* a write-only command has been paced and the request called during its
\* delay has written its own frame after it
C13_Witness ==
  \E r \in Reqs, q \in Reqs :
    /\ q > r
    /\ IsWriteOnly(r) /\ req[r].paced = 250
    /\ FramesOf(q) # {}

\* C14: every request submitted to send() eventually completes, with a
\* response or with an error, once timers fire and socket operations report:
\* the r-th send() call, once made, eventually has left the queue (it has made
\* an attempt), is settled, and its outcome is delivered to its caller.
C14_EveryRequestCompletes ==
  \A r \in 1..MaxSends :
    (Len(req) >= r) ~> (/\ Len(req) >= r
                        /\ req[r].st = "settled"
                        /\ req[r].tries >= 1
                        /\ req[r].result \in {"ok", "err"}
                        /\ req[r].delivered)

\* a request has ended by exhausted retries, its last failure a read timeout,
\* and the request queued behind it has completed too
C14_Witness ==
  \E r \in Reqs, q \in Reqs :
    /\ q > r
    /\ req[r].result = "err" /\ req[r].error = "read_timeout" /\ req[r].delivered
    /\ req[q].st = "settled" /\ req[q].delivered

\* C15: every frame written by send() is exactly 6 bytes: the prefix 0x38,
\* the 3 parameter bytes, the opcode byte and the suffix 0x83, for every
\* opcode and every hex parameter of at most 3 bytes; the bytes a shorter
\* parameter does not give are zero, on the right, and an empty parameter
\* gives 00 00 00.
C15_FrameLayout ==
  \A i \in 1..Len(wire) :
    LET f == wire[i].frame
        p == req[wire[i].r].parameter
        c == req[wire[i].r].cmd
    IN /\ Len(f) = 6
       /\ f[1] = 56
       /\ \A k \in 1..3 : f[k + 1] = (IF 2 * k <= Len(p) THEN 16 * p[2 * k - 1] + p[2 * k] ELSE 0)
       /\ f[5] = 16 * c[1] + c[2]
       /\ f[6] = 131

\* a one-byte parameter 0x8f was written with the set-brightness opcode 0x2a
C15_Witness ==
  /\ Len(wire) = 1
  /\ req[wire[1].r].parameter = <<8, 15>>
  /\ wire[1].frame = <<56, 143, 0, 0, 42, 131>>

\* C16: a decoded status object is never modified after getStatus() returned
\* it: the status the accessory holds always has the fields its own
\* rawResponse decodes to.
C16_StatusImmutable ==
  deviceStatus # <<>> => deviceStatus[1] = getStatus(deviceStatus[1].rawResponse)

Destroyed(s) == s # 0 /\ sock[s] \in {"closing", "closed"}

\* after a failed attempt, through the whole backoff wait
C17_State ==
  \A r \in Reqs : req[r].st = "backoff" =>
    /\ ~_connected
    /\ _client = 0
    /\ Destroyed(_rawSocket)
    /\ Destroyed(req[r].sk)

\* the step that starts the next attempt
C17_Step ==
  \A r \in Reqs : req[r].st = "backoff" /\ req'[r].st # "backoff" =>
    /\ ~_connected /\ _client = 0
    /\ req'[r].st = "connecting"
    /\ Len(sock') = Len(sock) + 1
    /\ _rawSocket' = Len(sock')
    /\ req'[r].sk = Len(sock')
    /\ sock'[Len(sock')] = "connecting"

\* C17: every failed attempt leaves the connection disconnected before the
\* next attempt of the same send starts: whatever the failure (connect
\* error, connect timeout, write error, read error, read timeout), from the
\* failure to the start of the retry _connected is false, _client is
\* undefined and the socket is destroyed, and the retry opens a new socket.
C17_RetryStartsDisconnected == [](C17_State) /\ [][C17_Step]_vars

\* the second attempt of a request is connecting on a new socket after a
\* read timeout on the first one
C17_Witness ==
  \E r \in Reqs :
    /\ req[r].st = "connecting"
    /\ req[r].tries = 2
    /\ req[r].lastErr = "read_timeout"
    /\ req[r].sk = 2
    /\ sock[1] = "closed"

\* a read is always raced against a 5000 ms timer; an error is surfaced as a
\* read timeout only by the 4th attempt
C18_State ==
  \A r \in Reqs :
    /\ req[r].st = "reading" => req[r].timer = 5000
    /\ req[r].error = "read_timeout" => req[r].tries = 4 /\ Len(req[r].backoffs) = 3

\* the step in which the read timer of request r fires, and the step that
\* follows the backoff
C18_Step ==
  \A r \in Reqs :
    /\ req[r].st = "reading" /\ req'[r].st # "reading" /\ req'[r].lastErr = "read_timeout" =>
         /\ ~_connected' /\ _client' = 0
         /\ sock'[req[r].sk] \in {"closing", "closed"}
         /\ IF req[r].tries < 4
            THEN /\ req'[r].st = "backoff"
                 /\ req'[r].result = "none"
                 /\ req'[r].timer = 200 * (2 ^ (req[r].tries - 1))
                 /\ Len(req'[r].backoffs) = Len(req[r].backoffs) + 1
            ELSE /\ req'[r].st = "settled"
                 /\ req'[r].result = "err"
                 /\ req'[r].error = "read_timeout"
    /\ req[r].st = "backoff" /\ req[r].lastErr = "read_timeout" /\ req'[r].st # "backoff" =>
         /\ req'[r].st = "connecting"
         /\ req'[r].tries = req[r].tries + 1

\* C18: a read that does not complete within the 5000 ms read timeout forces
\* a disconnect and fails that attempt; the attempt is retried after its
\* backoff while attempts remain, and only the timeout of the 4th attempt
\* is surfaced to the caller.
C18_ReadTimeoutRetried == [](C18_State) /\ [][C18_Step]_vars

\* the third read of a request has timed out and its 800 ms backoff runs
C18_Witness ==
  \E r \in Reqs :
    /\ req[r].st = "backoff"
    /\ req[r].lastErr = "read_timeout"
    /\ req[r].tries = 3
    /\ req[r].timer = 800
    /\ ~_connected

\* the state of the connection: Connected when both flags say so, Connecting
\* while an ensureConnected() waits for its socket, Disconnected otherwise
ConnState ==
  IF _connected /\ _client # 0 THEN "Connected"
  ELSE IF \E r \in Reqs : req[r].st = "connecting" THEN "Connecting"
  ELSE "Disconnected"

ConnStateNext ==
  IF _connected' /\ _client' # 0 THEN "Connected"
  ELSE IF \E r \in 1..Len(req') : req'[r].st = "connecting" THEN "Connecting"
  ELSE "Disconnected"

ConnTransitions ==
  { <<"Disconnected", "Connecting">>, <<"Connecting", "Connected">>,
    <<"Connecting", "Disconnected">>, <<"Connected", "Disconnected">> }

\* a connected client has an open or peer-ended socket that was opened by a
\* connect; a connecting one waits, under its 5000 ms timer, for the current
\* socket, which is still connecting unless a forced disconnect destroyed it
C19_State ==
  /\ ConnState = "Connected" => _client = _rawSocket /\ sock[_client] \in {"open", "ended"}
  /\ \A r \in Reqs : req[r].st = "connecting" =>
       /\ req[r].timer = 5000
       /\ req[r].sk = _rawSocket
       /\ sock[_rawSocket] = "connecting" \/ Destroyed(_rawSocket)

C19_Step ==
  /\ ConnState # ConnStateNext => <<ConnState, ConnStateNext>> \in ConnTransitions
  /\ ConnState # "Connected" /\ ConnStateNext = "Connected" =>
       /\ \E r \in Reqs : req[r].st = "connecting" /\ req[r].sk = _rawSocket
                          /\ req'[r].st = "writing"
       /\ sock[_rawSocket] = "connecting"
       /\ _client' = _rawSocket
       /\ sock'[_client'] = "open"
  /\ ConnState = "Disconnected" /\ ConnStateNext = "Connecting" =>
       /\ Len(sock') = Len(sock) + 1
       /\ \E r \in Reqs : req[r].st \in {"queued", "backoff"} /\ req'[r].st = "connecting"

\* C19: the connection state changes only along Disconnected->Connecting
\* (a send finds no live connection), Connecting->Connected (the connect event,
\* before the 5000 ms connect timeout), Connecting->Disconnected (connect
\* error or timeout) and Connected->Disconnected (socket error, close or
\* forced disconnect); it never becomes Connected without passing through
\* Connecting, nor after the connect timeout has fired, nor on a destroyed
\* socket.
C19_ConnectionTransitions == [](C19_State) /\ [][C19_Step]_vars

\* connected on a second socket after the connect on the first one timed out
C19_Witness ==
  \E r \in Reqs :
    /\ req[r].st = "writing"
    /\ req[r].lastErr = "connect_timeout"
    /\ ConnState = "Connected"
    /\ _client = 2
    /\ sock[1] = "closed"

\* once the events of every socket have arrived the client is disconnected,
\* and no request fails
C20_State ==
  /\ (sock # <<>> /\ \A s \in 1..Len(sock) : sock[s] = "closed") =>
       ~_connected /\ _client = 0
  /\ \A r \in Reqs : req[r].result # "err" /\ req[r].error = "none"

C20_Step ==
  \* an error or close event arrives while no request is in progress
  /\ Idle /\ _connected /\ ~_connected' => _client' = 0 /\ sock'[_client] \in {"closing", "closed"}
  \* a send() that finds the client disconnected
  /\ \A r \in Reqs : req[r].st = "queued" /\ req'[r].st # "queued" /\ ~_connected =>
       /\ req'[r].st = "connecting"
       /\ Len(sock') = Len(sock) + 1
       /\ req'[r].sk = Len(sock')
       /\ wire' = wire
  \* a frame is written on an open socket only
  /\ Len(wire') > Len(wire) =>
       \E r \in Reqs : req[r].st = "writing" /\ sock[req[r].sk] = "open"

\* C20: a socket error or close event that arrives while no request is in
\* progress leaves the client disconnected; the next send() opens a new
\* connection before it writes its frame, and it succeeds: the loss of the
\* idle connection is never surfaced to a caller when the device accepts the
\* new connection.
C20_IdleLossReconnects == [](C20_State) /\ [][C20_Step]_vars

\* the first connection was lost while idle; the next request found the
\* client disconnected and succeeded at its first attempt on a new socket
C20_Witness ==
  \E r \in Reqs :
    /\ r >= 2
    /\ req[r].result = "ok"
    /\ req[r].tries = 1
    /\ req[r].sk = 2
    /\ sock[1] = "closed"
    /\ Len(wire) = r

\* as long as the network has not failed, all sends use the one socket
C21_State ==
  faults = MaxFaults => Len(sock) <= 1 /\ \A r \in Reqs : req[r].sk \in {0, 1}

\* the step that starts an attempt while the client is connected
C21_Step ==
  \A r \in Reqs : req'[r].tries = req[r].tries + 1 /\ _connected /\ _client # 0 =>
    /\ UNCHANGED connVars
    /\ req'[r].st = "writing"
    /\ req'[r].sk = _client

\* C21: ensureConnected() is idempotent while connected: an attempt that
\* starts when the client is connected reuses the existing socket, creates
\* no socket (and so attaches no handlers) and leaves the connection state as
\* it was; consecutive successful sends share one connection.
C21_ConnectedIsReused == [](C21_State) /\ [][C21_Step]_vars

\* two sends have succeeded at their first attempt on the same, only socket
C21_Witness ==
  /\ Len(req) = 2
  /\ \A r \in Reqs : req[r].result = "ok" /\ req[r].tries = 1 /\ req[r].sk = 1
  /\ Len(sock) = 1
  /\ _connected /\ _client = 1

\* the connection c is Disconnected and its socket, if any, is destroyed
IsDisconnected(c) ==
  /\ ~c.connected
  /\ c.client = 0
  /\ c.rawSocket # 0 => c.sock[c.rawSocket] \in {"closing", "closed"}

\* C22: _forceDisconnect() taken from any reachable connection state
\* (Disconnected, Connecting or Connected) gives the Disconnected state with
\* the socket destroyed, and applying it twice gives what applying it once
\* gives.
C22_ForceDisconnectIdempotent ==
  /\ IsDisconnected(forceDisconnect(Connection))
  /\ forceDisconnect(forceDisconnect(Connection)) = forceDisconnect(Connection)
  /\ forceDisconnect(Connection).sock = Destroy(sock, _rawSocket)

\* a read timed out while Connected: the timer callback and the catch block
\* both ran _forceDisconnect(), and the request waits for its retry
C22_Witness ==
  \E r \in Reqs :
    /\ req[r].st = "backoff" /\ req[r].lastErr = "read_timeout"
    /\ IsDisconnected(Connection)
    /\ forceDisconnect(Connection) = Connection

\* the integer n limited to one unsigned byte
Clamp(n) == Min(Max(n, 0), 255)

\* the integer the setter of operation o hands to intToHex
IntOf(o) ==
  IF ops[o].kind = "setBrightnessPercentage" THEN brightnessOfPercentage(ops[o].arg)
  ELSE ops[o].arg

\* C23: the parameter a setter builds with intToHex has exactly two hex
\* characters, and the first parameter byte of the frame written is the
\* integer clamped into 0..255.
C23_OneByteParameter ==
  /\ \A r \in Reqs : Len(req[r].parameter) = 2
  /\ \A i \in 1..Len(wire) : wire[i].frame[2] = Clamp(IntOf(req[wire[i].r].op))

\* every armed read timer belongs to the attempt that is reading
C24_State == \A r \in Reqs : Leftover(r) = 0

\* a read timer fires only for the attempt that armed it: no step in which a
\* timer of an attempt that is over fires changes the connection
C24_Step ==
  \A r \in Reqs :
    Leftover(r) > 0 /\ req'[r].t < req[r].t /\ req'[r].st = req[r].st => UNCHANGED connVars

\* C24: the read timer an attempt arms is disarmed when the attempt ends, by
\* success or by failure; no timer is left armed, and none fires later and
\* force-disconnects the connection of a later attempt or request.
C24_ReadTimerDisarmed == [](C24_State) /\ [][C24_Step]_vars

\* C25: one toggleOnOff() puts at most one toggle frame on the wire: an
\* attempt that wrote the frame and failed to read the 17-byte answer is not
\* followed by an attempt that writes the frame again.
C25_ToggleWrittenOnce ==
  \A r \in Reqs : req[r].cmd = CMD_TOGGLE => Cardinality(FramesOf(r)) <= 1

\* C26: concurrent on() calls on a device, all of which succeed on a network
\* that does not fail: when all have completed the device is on.
C26_ConcurrentOnLeavesOn ==
  (/\ ops # <<>>
   /\ \A o \in Ops : ops[o].kind = "on" /\ ops[o].phase = "done"
   /\ faults = MaxOpFaults) => devOn

\* C27: a send() with a response length L > 0 that succeeds returns exactly
\* L bytes (2 * L hex characters); an empty or short read is never returned
\* as a success.
C27_FullResponseOrFailure ==
  \A r \in Reqs :
    req[r].responseLength > 0 /\ req[r].result = "ok" =>
      Len(req[r].response) = 2 * req[r].responseLength

\* the 'error' or 'close' event of a socket that is no longer the current one
\* leaves the flags and the current socket as they are
C28_Step ==
  \A s \in 1..Len(sock) :
    s # _rawSocket /\ sock[s] \in {"closing", "ended"} /\ sock'[s] = "closed" =>
      /\ UNCHANGED <<_connected, _client, _rawSocket>>
      /\ sock'[_rawSocket] = sock[_rawSocket]

\* C28: the events of a socket that a newer socket has superseded never
\* change the state of the current connection: they neither mark it
\* Disconnected nor destroy the current socket.
C28_SupersededSocketIgnored == [][C28_Step]_vars

\* a request whose frame has been handed to a socket holds a socket on which
\* 'connect' was received
C29_State ==
  \A r \in Reqs : req[r].st = "writing" => req[r].sk # 0 /\ sock[req[r].sk] # "connecting"

\* the step in which an attempt hands its frame to the socket, and the step in
\* which the frame goes out
C29_Step ==
  \A r \in Reqs :
    /\ req[r].st # "writing" /\ req'[r].st = "writing" =>
         /\ _connected' /\ _client' # 0
         /\ req'[r].sk = _client' /\ _client' = _rawSocket'
         /\ sock'[_client'] \in {"open", "ended"}
    /\ Len(wire') > Len(wire) /\ wire'[Len(wire')].r = r =>
         /\ req[r].st = "writing"
         /\ req[r].sk = _rawSocket
         /\ sock[req[r].sk] = "open"

\* C29: an attempt hands its frame to the socket only when the client is
\* Connected, and to the current socket, one that received 'connect' and that
\* the client has not destroyed; a frame goes out only on the current, open
\* socket. No write is issued while Disconnected or Connecting.
C29_WriteOnLiveConnection == [](C29_State) /\ [][C29_Step]_vars

\* after a failed attempt, the frame of the retry went out on the second socket
C29_Witness ==
  \E r \in Reqs :
    /\ req[r].tries = 2 /\ req[r].st \in {"reading", "pacing"}
    /\ FramesOf(r) # {}
    /\ req[r].sk = 2 /\ _rawSocket = 2 /\ sock[2] = "open" /\ sock[1] = "closed"
    /\ _connected

\* the requests that are queued or in progress
Pending == { r \in Reqs : req[r].st # "settled" }

\* C30: while the poller runs the number of pending requests stays bounded:
\* the poll timer enqueues no getStatus() while an earlier poll is still queued
\* or in flight, so at most one poll is pending.
C30_OnePollPending == Cardinality(Pending) <= 1

\* C31: between any two asynchronous steps the _connected flag is true
\* exactly when _client is defined: ensureConnected, _forceDisconnect and the
\* 'error' and 'close' handlers set or clear the two in the same turn.
C31_FlagsAgree == _connected <=> _client # 0

\* the flags were set by a connect, cleared by the forced disconnect of a
\* failed attempt, and set again by the connect of the retry
C31_Witness ==
  \E r \in Reqs :
    /\ req[r].tries = 2 /\ req[r].lastErr = "read_timeout" /\ req[r].st = "reading"
    /\ _connected /\ _client = 2
    /\ sock[1] = "closed"

====
